---- MODULE Spec2Model ----
(***************************************************************************)
(* State-machine model of the Kalshi order-book watcher:                   *)
(*   src/order_book.py  OrderBook (snapshot / delta / best bid / best ask) *)
(*   src/watcher.py     watch_orderbook (receive loop over one OrderBook)  *)
(*   src/app.py         BTC15Frame (auto-rolling 15-minute contract with   *)
(*                      the entry / target / stop-loss cycle tracker)      *)
(* Time is in whole seconds.  Prices are integer cents.                    *)
(***************************************************************************)
EXTENDS Integers, Sequences, FiniteSets, TLC

VARIABLES
    yes,              \* OrderBook.yes : price -> quantity
    no,               \* OrderBook.no  : price -> quantity
    last,             \* the message / callback handled by the latest step
    side,             \* the side watched ("yes" or "no")
    now,              \* the wall clock, datetime.datetime.now()
    ticker,           \* BTC15Frame.ticker
    expiry,           \* BTC15Frame.expiry
    contract_start,   \* BTC15Frame._contract_start
    in_trigger,       \* BTC15Frame._in_trigger
    trigger_time,     \* BTC15Frame._trigger_time
    cycle_count,      \* BTC15Frame._cycle_count
    stop_loss_count,  \* BTC15Frame._stop_loss_count
    stopped_out,      \* BTC15Frame._stopped_out
    entry_ask,        \* BTC15Frame._entry_ask
    no_entry_after,   \* BTC15Frame._no_entry_after_var
    max_cycles,       \* BTC15Frame._max_cycles_var
    sl_delay,         \* BTC15Frame._sl_delay_var
    running,          \* BTC15Frame._running
    future,           \* BTC15Frame._future : number of the stream task held
    emitted,          \* events handed to the sinks by the latest step
    edits,            \* number of spinbox edits the user has made
    q_roll,           \* the ("roll", ...) markers waiting in BTC15Frame._q
    sessions,         \* the _ws_loop tasks BTC15Frame has started, oldest first
    book_ws,          \* a BookFrame tab: its _running flag and its _ws_loop task
    sent,             \* what the latest step of a stream task or poller
                      \* thread sent and queued
    fetchers,         \* the _fetch_strike threads started, oldest first
    shared_strike,    \* BTC15Frame._shared_strike
    shared_btc_price, \* BTC15Frame._shared_btc_price
    history_open,     \* App._history_frame is not None
    trades_open,      \* App._trade_history_frame is not None
    poll_armed,       \* BTC15Frame._poll is scheduled: after(80, self._poll)
    tick_armed,       \* BTC15Frame._tick is scheduled: after(1_000, ...)
    delivered,        \* what the sinks received in the latest step
    q_strike,         \* the ("strike", ...) and ("strike_failed", None)
                      \* messages waiting in BTC15Frame._q
    trk_strike,       \* BTC15Frame._trk_strike_var: "fetching", "value" or
                      \* "unavailable"
    pct_samples,      \* BTC15Frame._pct_samples: (timestamp, price), oldest first
    pending_autosave, \* BTC15Frame._pending_autosave: the contract a roll has
                      \* ended and whose rows are still to be saved
    skip_first_save,  \* BTC15Frame._skip_first_save
    log_len,          \* len(BTC15Frame._log)
    session_start_idx \* BTC15Frame._session_start_idx

vars == <<yes, no, last, side, now, ticker, expiry, contract_start,
          in_trigger, trigger_time, cycle_count, stop_loss_count,
          stopped_out, entry_ask, no_entry_after, max_cycles, sl_delay,
          running, future, emitted, edits, q_roll, sessions, book_ws, sent,
          fetchers, shared_strike, shared_btc_price,
          history_open, trades_open, poll_armed, tick_armed, delivered,
          q_strike, trk_strike, pct_samples,
          pending_autosave, skip_first_save, log_len, session_start_idx>>

bookVars == <<yes, no>>

engineVars == <<now, ticker, expiry, contract_start, in_trigger,
                trigger_time, cycle_count, stop_loss_count, stopped_out,
                entry_ask, no_entry_after, max_cycles, sl_delay, running,
                future, emitted, edits, q_roll, sessions, book_ws, sent,
                fetchers, shared_strike, shared_btc_price>>

(***************************************************************************)
(* Bounds of the model.                                                    *)
(***************************************************************************)
MaxQty == 2        \* largest quantity a level is driven to
MaxDelta == 2      \* largest magnitude of a signed delta

\* Python's None (prices, quantities and times are never negative).
None == -1

\* a step in which no sink is called
NoDelivery == [history |-> <<>>, trades |-> <<>>]

(***************************************************************************)
(* src/order_book.py                                                       *)
(***************************************************************************)
EmptyMap == [p \in {} |-> 0]

\* dict.get(price, 0)
Get(book, price) == IF price \in DOMAIN book THEN book[price] ELSE 0

\* a pop that empties the dict
PopAll(book, price) == EmptyMap

\* dict.pop(price, None)
Pop(book, price) == [q \in (DOMAIN book) \ {price} |-> book[q]]

\* dict[price] = qty
Put(book, price, qty) ==
    [q \in (DOMAIN book) \cup {price} |-> IF q = price THEN qty ELSE book[q]]

\* max(book.keys())
MaxKey(book) == CHOOSE p \in DOMAIN book : \A q \in DOMAIN book : q <= p

\* {price: qty for price, qty in levels} : a later pair overrides an earlier one
RECURSIVE FromLevels(_)
FromLevels(levels) ==
    IF levels = <<>> THEN EmptyMap
    ELSE LET n == Len(levels)
             init == FromLevels(SubSeq(levels, 1, n - 1))
         IN  Put(init, levels[n][1], levels[n][2])

\* a snapshot laid over the levels the map holds
SnapshotYesOver(m) ==
    [p \in DOMAIN yes \cup DOMAIN FromLevels(m.yes) |->
        IF p \in DOMAIN FromLevels(m.yes) THEN FromLevels(m.yes)[p]
        ELSE yes[p]]

\* OrderBook.apply_snapshot: both maps are rebuilt from the message
SnapshotYes(m) == FromLevels(m.yes)

SnapshotNo(m) == FromLevels(m.no)

\* OrderBook.apply_delta, line 12: which map the delta goes to
DeltaOnYes(m) == m.side = "yes"

\* OrderBook.apply_delta, lines 13-19: the map after the delta
DeltaStrict(book, price, delta) ==
    LET new_qty == Get(book, price) + delta
    IN  IF new_qty < 0 THEN Pop(book, price) ELSE Put(book, price, new_qty)

DeltaMap(book, price, delta) ==
    LET new_qty == Get(book, price) + delta
    IN  IF new_qty <= 0 THEN Pop(book, price) ELSE Put(book, price, new_qty)

DeltaYes(m) == IF DeltaOnYes(m) THEN DeltaMap(yes, m.price, m.delta) ELSE yes
DeltaNo(m) == IF DeltaOnYes(m) THEN no ELSE DeltaMap(no, m.price, m.delta)

\* OrderBook.best_bid
best_bid(s) ==
    LET book == IF s = "yes" THEN yes ELSE no
    IN  IF DOMAIN book # {} THEN MaxKey(book) ELSE None

\* OrderBook.best_ask
AskNoComplement(s) ==
    LET other == IF s = "yes" THEN no ELSE yes
    IN  IF DOMAIN other # {} THEN MaxKey(other) ELSE None

best_ask(s) ==
    LET other == IF s = "yes" THEN no ELSE yes
    IN  IF DOMAIN other # {} THEN 100 - MaxKey(other) ELSE None

\* OrderBook.spread
spread(s) ==
    IF best_bid(s) # None /\ best_ask(s) # None
    THEN best_ask(s) - best_bid(s) ELSE None

(***************************************************************************)
(* src/watcher.py : watch_orderbook, the receive loop over one OrderBook   *)
(***************************************************************************)
BookPrices == {30, 65}
BookSides == {"yes", "no", "maybe"}
SnapQtys == {0, 1}

Levels == {<<p, q>> : p \in BookPrices, q \in SnapQtys}

LevelLists ==
    {<<>>} \cup {<<a>> : a \in Levels} \cup {<<a, b>> : a \in Levels, b \in Levels}

SnapshotMsgs == [op : {"snapshot"}, yes : LevelLists, no : LevelLists]

DeltaMsgs ==
    [op : {"delta"}, side : BookSides, price : BookPrices,
     delta : (0 - MaxDelta)..MaxDelta]

Quantities(book) == {book[p] : p \in DOMAIN book}

InitBook ==
    /\ yes = EmptyMap
    /\ no = EmptyMap
    /\ last = [op |-> "init"]
    /\ side = "yes"
    /\ now = 0
    /\ ticker = None
    /\ expiry = None
    /\ contract_start = None
    /\ in_trigger = FALSE
    /\ trigger_time = None
    /\ cycle_count = 0
    /\ stop_loss_count = 0
    /\ stopped_out = FALSE
    /\ entry_ask = None
    /\ no_entry_after = 0
    /\ max_cycles = 0
    /\ sl_delay = 0
    /\ running = TRUE
    /\ future = 0
    /\ emitted = <<>>
    /\ edits = 0
    /\ q_roll = <<>>
    /\ sessions = <<>>
    /\ book_ws = None
    /\ sent = <<>>
    /\ fetchers = <<>>
    /\ shared_strike = None
    /\ shared_btc_price = None
    /\ history_open = TRUE
    /\ trades_open = TRUE
    /\ poll_armed = TRUE
    /\ tick_armed = TRUE
    /\ delivered = NoDelivery
    /\ q_strike = <<>>
    /\ trk_strike = "fetching"
    /\ pct_samples = <<>>
    /\ pending_autosave = <<>>
    /\ skip_first_save = FALSE
    /\ log_len = 0
    /\ session_start_idx = 0

\* watch_orderbook, msg_type == "orderbook_snapshot"
WatchSnapshot ==
    \E m \in SnapshotMsgs :
        /\ yes' = SnapshotYes(m)
        /\ no' = SnapshotNo(m)
        /\ last' = m
        /\ UNCHANGED <<side, engineVars, history_open, trades_open,
                       poll_armed, tick_armed, delivered,
                   q_strike, trk_strike, pct_samples,
                   pending_autosave, skip_first_save, log_len, session_start_idx>>

\* watch_orderbook, msg_type == "orderbook_delta"
WatchDelta ==
    \E m \in DeltaMsgs :
        /\ \A q \in Quantities(DeltaYes(m)) \cup Quantities(DeltaNo(m)) : q <= MaxQty
        /\ yes' = DeltaYes(m)
        /\ no' = DeltaNo(m)
        /\ last' = m
        /\ UNCHANGED <<side, engineVars, history_open, trades_open,
                       poll_armed, tick_armed, delivered,
                   q_strike, trk_strike, pct_samples,
                   pending_autosave, skip_first_save, log_len, session_start_idx>>

NextBook == WatchSnapshot \/ WatchDelta

SpecBook == InitBook /\ [][NextBook]_vars

(***************************************************************************)
(* src/app.py : BTC15Frame.  The sinks registered by App._open_btc15 are   *)
(* taken to stay open and the feed to deliver well-formed messages.        *)
(***************************************************************************)
MaxEarly == 6      \* a handler may run at each of the first MaxEarly seconds
MaxLevels == 1     \* levels the feed of the engine keeps on one side
MaxEdits == 1      \* spinbox edits the user makes
MaxSamples == 3    \* samples the window is let grow to
MaxLog == 14       \* rows the log is let grow to by the events of the engine
MaxTickLog == 4    \* the 500 ms timer adds its row to a log shorter than this

EntryThreshold == 40
TargetThreshold == 45
StopThreshold == 10
MinDwell == 2
Lockout == 30
MilestoneCycles == 4
Duration == 900

\* the process starts at hh:45:00 of hour 0
StartTime == 45 * 60

\* instants at which a handler may run, as offsets from the start: the first
\* seconds, one minute, the edge of the 30 s lockout, the expiry (inside the
\* lockout until the tick rolls) and the second after it
Offsets == (0..MaxEarly) \cup {60, 870, 900, 901}
Times == {StartTime + o : o \in Offsets}

\* BTC15Frame._compute: the expiry, rounded up to the next quarter hour
ComputeNoCarry(t) ==
    LET minute == (t % 3600) \div 60
        nm == ((minute \div 15) + 1) * 15
        hourStart == t - (t % 3600)
    IN  hourStart + (nm % 60) * 60

Compute(t) ==
    LET minute == (t % 3600) \div 60
        nm == ((minute \div 15) + 1) * 15
        hourStart == t - (t % 3600)
    IN  IF nm >= 60 THEN hourStart + 3600 ELSE hourStart + nm * 60

\* BTC15Frame._compute: the ticker names the expiry's day, hour and minute
TickerOf(exp) ==
    <<"KXBTC15M", exp \div 86400, (exp % 86400) \div 3600,
      (exp % 3600) \div 60, (exp % 3600) \div 60>>

\* _check_events: secs_remaining < 30 blocks a new cycle
LockedOut(t) == (IF expiry # None THEN expiry - t ELSE 999) < Lockout

\* _check_events: the no-entry-after cutoff, in minutes since contract start
PastCutoff(t) ==
    /\ no_entry_after > 0
    /\ contract_start # None
    /\ t - contract_start >= no_entry_after * 60

EntryHitLoose(ask) == ask <= EntryThreshold + 1

EntryHit(ask) == ask <= EntryThreshold

StopHit(ask) == ask <= StopThreshold

\* _check_events: the stop loss is not armed until sl_delay seconds after entry
NeverArmed(t) == sl_delay > 0

StopNotArmed(t) ==
    /\ sl_delay > 0
    /\ (IF trigger_time # None THEN t - trigger_time ELSE 999) < sl_delay

TargetHit(bid) == bid # None /\ bid >= TargetThreshold

SubDwellNever(t) == FALSE

SubDwell(t) == t - trigger_time < MinDwell

MaxReached(cc) == max_cycles > 0 /\ cc >= max_cycles

MilestoneDue(cc) == cc = MilestoneCycles

RollLate(t) == expiry - t < 0

RollDue(t) == expiry - t <= 0

Event(kind, price, dur) == [kind |-> kind, price |-> price, dur |-> dur]

Kinds(evs) == {evs[i].kind : i \in DOMAIN evs}

Engine ==
    [in_trigger |-> in_trigger, trigger_time |-> trigger_time,
     cycle_count |-> cycle_count, stop_loss_count |-> stop_loss_count,
     stopped_out |-> stopped_out, entry_ask |-> entry_ask, emitted |-> <<>>]

\* _check_events, not in a trigger: lines 958-975
CheckEntry(e, t, ask) ==
    IF LockedOut(t) THEN e
    ELSE IF PastCutoff(t) THEN e
    ELSE IF EntryHit(ask)
         THEN [e EXCEPT !.in_trigger = TRUE, !.trigger_time = t,
                        !.entry_ask = ask,
                        !.emitted = <<Event("ENTRY", ask, None)>>]
         ELSE e

\* _check_events, trigger active and ask <= 10: lines 978-993
CheckStop(e, t, ask) ==
    IF StopNotArmed(t) THEN e
    ELSE [e EXCEPT !.stop_loss_count = @ + 1, !.in_trigger = FALSE,
                   !.trigger_time = None, !.stopped_out = TRUE,
                   !.emitted = <<Event("STOP_LOSS", ask, None)>>]

\* _check_events, trigger active and bid >= 45: lines 994-1013
CheckTarget(e, t, bid) ==
    LET secs == t - trigger_time
        f == IF SubDwell(t) THEN e
             ELSE [e EXCEPT !.cycle_count = @ + 1, !.in_trigger = FALSE,
                            !.trigger_time = None,
                            !.emitted = <<Event("TARGET", bid, secs)>>]
        g == IF MilestoneDue(f.cycle_count)
             THEN [f EXCEPT !.emitted = Append(@, Event("MILESTONE", None, None))]
             ELSE f
    IN  IF MaxReached(g.cycle_count) THEN [g EXCEPT !.stopped_out = TRUE] ELSE g

\* _check_events, lines 949-950: a stopped engine evaluates nothing
StoppedNever == FALSE

StoppedOut == stopped_out

\* BTC15Frame._check_events
check_events(t) ==
    LET e == Engine
        ask == best_ask(side)'
        bid == best_bid(side)'
    IN  IF StoppedOut THEN e
        ELSE IF ask = None THEN e
        ELSE IF ~in_trigger THEN CheckEntry(e, t, ask)
        ELSE IF StopHit(ask) THEN CheckStop(e, t, ask)
        ELSE IF TargetHit(bid) THEN CheckTarget(e, t, bid)
        ELSE e

\* the feed of the engine: prices quoted on each side, one contract a level
YesPrices == {44, 60}
NoPrices == {59, 60, 90}
EngineQtys == {1}
EngineLists(P) == {<<>>} \cup {<<<<p, q>>>> : p \in P, q \in EngineQtys}

EngineMsgs ==
    [op : {"snapshot"}, yes : EngineLists(YesPrices), no : EngineLists(NoPrices)]
    \cup [op : {"delta"}, side : {"yes"}, price : YesPrices, delta : {0 - 1, 1}]
    \cup [op : {"delta"}, side : {"no"}, price : NoPrices, delta : {0 - 1, 1}]

FeedBounded(y, n) ==
    /\ Quantities(y) \cup Quantities(n) \subseteq EngineQtys
    /\ Cardinality(DOMAIN y) <= MaxLevels
    /\ Cardinality(DOMAIN n) <= MaxLevels

\* self.ticker before the first roll
NoTicker == <<>>

\* _roll, lines 516-521: the contract-end callback, skipped on the first roll
SinkCallsAfterReset(tk, cycles, stops, open) ==
    IF tk # NoTicker
    THEN <<[kind |-> "CONTRACT_END", ticker |-> tk, cycles |-> 0,
            stops |-> 0, open |-> FALSE]>>
    ELSE <<>>

SinkCalls(tk, cycles, stops, open) ==
    IF tk # NoTicker
    THEN <<[kind |-> "CONTRACT_END", ticker |-> tk, cycles |-> cycles,
            stops |-> stops, open |-> open]>>
    ELSE <<>>

\* _roll, lines 510-511: open_trig_str, kept as what every later test of it
\* reads: whether it is a non-empty string (a trigger is open at the roll)
OpenTrigStr == in_trigger /\ trigger_time # None

\* _roll, lines 512 and 563: the roll marker put on the queue
Marker(tk, cycles, open, stops) ==
    [ticker |-> tk, cycles |-> cycles, open |-> open, stops |-> stops]

\* _append_roll_marker, lines 1146-1163: the label of the summary row
EvtLabel(cycles, open) ==
    IF cycles >= MilestoneCycles THEN "CYCLES"
    ELSE IF cycles > 0 THEN "CYCLES"
    ELSE IF open THEN "CYCLE X"
    ELSE "NO TRIG"

\* _append_roll_marker: the CONTRACT END summary row and the ROLL divider
EndRows(m) ==
    <<[kind |-> "CONTRACT_END_ROW", evt |-> EvtLabel(m.cycles, m.open),
       cycles |-> m.cycles, stops |-> m.stops, open |-> m.open],
      [kind |-> "ROLL", ticker |-> m.ticker]>>

\* HistoryFrame.add_record, lines 1468-1482: the result column of the record
add_record(cycles, stops, open) ==
    [result |-> IF cycles >= MilestoneCycles THEN "star cycles"
                ELSE IF cycles > 0 THEN "cycles"
                ELSE IF open THEN "trigger hit - target not reached"
                ELSE "no trigger",
     stop_suffix |-> stops # 0]

\* a stream task: where _ws_loop stands, the ticker its frame had when the
\* task was started, whether future.cancel() has been called on it, and
\* whether a step that was ready to run at that moment is still to run
\* (cancel() only asks the loop thread to cancel the task)
NewSession(tk) ==
    [pc |-> "connecting", ticker |-> tk, cancel |-> FALSE, grace |-> FALSE]

\* _roll line 499 / stop: if self._future and not self._future.done(): cancel()
RequestCancel(w) ==
    IF w.pc = "done" \/ w.cancel THEN w
    ELSE [w EXCEPT !.cancel = TRUE, !.grace = TRUE]

\* the ticker of the BookFrame tab
BookTicker == <<"MKT">>

\* BookFrame.__init__: _running = True, _start_ws()
BookFrameInit ==
    [running |-> TRUE, pc |-> "connecting", ticker |-> BookTicker,
     cancel |-> FALSE, grace |-> FALSE]

\* what a stream task sends to the server or puts on its frame's queue
Subscribe(tk) == [out |-> "subscribe", ticker |-> tk]
QPut(kind, text) == [out |-> "put", kind |-> kind, text |-> text]

\* what can wake a stream task where it waits
SessionEvents(pc) ==
    IF pc = "connecting" THEN {"connected", "connect_failed"}
    ELSE IF pc = "live"
         THEN {"data", "ticker", "error", "other", "undecodable", "dropped"}
    ELSE IF pc = "backoff" THEN {"woke"}
    ELSE {}

\* _ws_loop, t == "error": one status, then return
OnErrorRetry(frame) ==
    [pc |-> "backoff", out |-> <<QPut("status", "error")>>]

OnError(frame) ==
    [pc |-> "done", out |-> <<QPut("status", "error")>>]

\* _ws_loop, except Exception: BTC15Frame reports and backs off unless it
\* was stopped; BookFrame reports and ends
OnFailure(frame, run) ==
    IF frame = "book"
    THEN [pc |-> "done", out |-> <<QPut("status", "disconnected")>>]
    ELSE IF ~run THEN [pc |-> "done", out |-> <<>>]
    ELSE [pc |-> "backoff", out |-> <<QPut("status", "reconnecting")>>]

\* one step of _ws_loop, from one await to the next; tk is self.ticker and
\* run is self._running as the step reads them
SessionStep(frame, ev, tk, run) ==
    IF ev = "connected"
    THEN [pc |-> "live", out |-> <<Subscribe(tk), QPut("status", "live")>>]
    ELSE IF ev = "data" THEN [pc |-> "live", out |-> <<QPut("data", "book")>>]
    ELSE IF ev = "ticker"
         THEN [pc |-> "live",
               out |-> IF frame = "btc15" THEN <<QPut("ticker", "price")>>
                       ELSE <<>>]
    ELSE IF ev = "other" THEN [pc |-> "live", out |-> <<>>]
    ELSE IF ev = "error" THEN OnError(frame)
    ELSE IF ev = "woke" THEN [pc |-> "connecting", out |-> <<>>]
    ELSE OnFailure(frame, run)

\* a task runs a step if it is not cancelled, or if the step was ready
\* before the loop thread got to the cancellation
CanStep(w) == w.pc # "done" /\ (~w.cancel \/ w.grace)

\* a _fetch_strike thread: the ticker it was started with, the attempts made
NewFetcher(tk) == [ticker |-> tk, attempt |-> 0, pc |-> "run"]

\* _fetch_strike: for attempt in range(6)
MaxAttempts == 6

\* the strike the market data of a contract states: a number, one per
\* contract of the day
StrikeOf(tk) == 1000 + 60 * tk[3] + tk[4]

\* one attempt of _fetch_strike where the sixth attempt that finds nothing
\* ends the thread without a word
FetchStepSilent(f, res) ==
    IF res = "found"
    THEN [pc |-> "done", attempt |-> 0, strike |-> <<StrikeOf(f.ticker)>>,
          out |-> <<QPut("strike", StrikeOf(f.ticker))>>]
    ELSE IF f.attempt + 1 < MaxAttempts
         THEN [pc |-> "run", attempt |-> f.attempt + 1, strike |-> <<>>,
               out |-> <<>>]
    ELSE [pc |-> "done", attempt |-> 0, strike |-> <<>>,
          out |-> IF res = "raised"
                  THEN <<QPut("status", "strike error"),
                         QPut("strike_failed", None)>>
                  ELSE <<>>]

\* one attempt of _fetch_strike: the strike is found, or neither field holds
\* it yet, or the request raises; a thread that has returned has no attempt
\* counter left
FetchStep(f, res) ==
    IF res = "found"
    THEN [pc |-> "done", attempt |-> 0, strike |-> <<StrikeOf(f.ticker)>>,
          out |-> <<QPut("strike", StrikeOf(f.ticker))>>]
    ELSE IF f.attempt + 1 < MaxAttempts
         THEN [pc |-> "run", attempt |-> f.attempt + 1, strike |-> <<>>,
               out |-> <<>>]
    ELSE [pc |-> "done", attempt |-> 0, strike |-> <<>>,
          out |-> IF res = "raised"
                  THEN <<QPut("status", "strike error"),
                         QPut("strike_failed", None)>>
                  ELSE <<QPut("strike_failed", None)>>]

\* the outcome a fetcher queues, among what its step puts
IsStrikeMsg(o) == o.out = "put" /\ o.kind \in {"strike", "strike_failed"}
StrikeMsgs(outs) == SelectSeq(outs, IsStrikeMsg)

\* _update_tracker, lines 828-833: the strike label
update_tracker(strike) == IF strike # None THEN "value" ELSE "fetching"

\* _add_pct_sample: cutoff = now_ts - 900.0
Window == 900

\* _add_pct_sample, lines 808-809: popleft while the oldest is before cutoff
RECURSIVE Prune(_, _)
Prune(samples, cutoff) ==
    IF samples # <<>> /\ Head(samples)[1] < cutoff
    THEN Prune(Tail(samples), cutoff)
    ELSE samples

\* _add_pct_sample with the oldest sample dropped whatever its age
add_pct_sample_drop(samples, t, btc) ==
    IF btc = None THEN samples
    ELSE Tail(Append(samples, <<t, btc>>))

\* BTC15Frame._add_pct_sample
add_pct_sample(samples, t, btc) ==
    IF btc = None THEN samples
    ELSE Prune(Append(samples, <<t, btc>>), t - Window)

\* how many samples a call of _add_pct_sample drops
Dropped(samples, t, btc) ==
    IF btc = None THEN 0
    ELSE Len(samples) + 1 - Len(add_pct_sample(samples, t, btc))

\* spot prices the reference feed returns
BtcPrices == {101, 102}

\* App._open_btc15, _combined_end: a contract end goes to the History tab's
\* add_record, then to the Trade History tab's add_contract_end; the frame of
\* a closed tab is None, the call on it raises and what follows is not run
CombinedEnd(ends) ==
    IF ends = <<>>
    THEN [history |-> <<>>, trades |-> <<>>, raised |-> FALSE]
    ELSE IF ~history_open
    THEN [history |-> <<>>, trades |-> <<>>, raised |-> TRUE]
    ELSE IF ~trades_open
    THEN [history |-> ends, trades |-> <<>>, raised |-> TRUE]
    ELSE [history |-> ends, trades |-> ends, raised |-> FALSE]

\* _add_event_row and _add_milestone_row end with self._on_event(...), the
\* Trade History tab's add_event: it records the row and inserts it in its
\* tree, which raises once the tab is closed and its widgets are destroyed
EventRaises(e) == e.emitted # <<>> /\ ~trades_open

\* _check_events left at the first event row, whose sink raised: the rows
\* and the max-cycles check that follow a TARGET or MILESTONE row are not run
Raised(e) ==
    [e EXCEPT !.emitted = <<e.emitted[1]>>,
              !.stopped_out = IF e.emitted[1].kind \in {"TARGET", "MILESTONE"}
                              THEN stopped_out ELSE @]

\* _roll, line 545: if elapsed > 30
SkipAfter == 30

\* the first save skipped from 30 s on
SkipFirstFrom30(t) == t - (Compute(t) - Duration) >= SkipAfter

\* _roll, lines 543-546, on the first roll: the tab was opened more than
\* 30 s into the contract, its first save is to be skipped
SkipFirst(t) == t - (Compute(t) - Duration) > SkipAfter

\* _append_roll_marker, line 1194: len(self._log[self._session_start_idx:])
\* for a log of n rows; a slice that starts past the end is empty
AutoSaveRows(n, idx) == IF idx >= n THEN 0 ELSE n - idx

\* the state after BTC15Frame.__init__ : UI built, first _roll() done, and the
\* first _poll() has taken that roll's marker off the queue
\* (the YES tab; the NO tab runs the same code with the two maps exchanged)
InitAt(t) ==
    /\ yes = EmptyMap
    /\ no = EmptyMap
    /\ last = [op |-> "init"]
    /\ side = "yes"
    /\ now = t
    /\ expiry = Compute(t)
    /\ ticker = TickerOf(Compute(t))
    /\ contract_start = Compute(t) - Duration
    /\ in_trigger = FALSE
    /\ trigger_time = None
    /\ cycle_count = 0
    /\ stop_loss_count = 0
    /\ stopped_out = FALSE
    /\ entry_ask = None
    /\ no_entry_after = 0
    /\ max_cycles = 0
    /\ sl_delay = 0
    /\ running = TRUE
    /\ future = 1
    /\ emitted = SinkCalls(NoTicker, 0, 0, FALSE)
                 \o EndRows(Marker(TickerOf(Compute(t)), 0, FALSE, 0))
    /\ edits = 0
    /\ q_roll = <<>>
    /\ sessions = <<NewSession(TickerOf(Compute(t)))>>
    /\ book_ws = BookFrameInit
    /\ sent = <<>>
    /\ fetchers = <<NewFetcher(TickerOf(Compute(t)))>>
    /\ shared_strike = None
    /\ shared_btc_price = None
    /\ history_open = TRUE
    /\ trades_open = TRUE
    /\ poll_armed = TRUE
    /\ tick_armed = TRUE
    /\ delivered = NoDelivery
    /\ q_strike = <<>>
    /\ trk_strike = "fetching"
    /\ pct_samples = <<>>
    /\ pending_autosave = <<>>
    /\ skip_first_save = SkipFirst(t)
    /\ log_len = Len(EndRows(Marker(TickerOf(Compute(t)), 0, FALSE, 0)))
    /\ session_start_idx = 0

Init == InitAt(StartTime)

\* the 80 ms _poll has taken what was queued, if it is still scheduled
Drained == q_roll = <<>> \/ ~poll_armed

\* BTC15Frame._poll, kind == "data": apply the message, then _check_events
PollData ==
    \E m \in EngineMsgs :
        /\ running
        /\ poll_armed
        /\ q_roll = <<>>
        /\ UNCHANGED <<now, side>>
        /\ IF m.op = "snapshot"
           THEN yes' = SnapshotYes(m) /\ no' = SnapshotNo(m)
           ELSE /\ FeedBounded(DeltaYes(m), DeltaNo(m))
                /\ yes' = DeltaYes(m)
                /\ no' = DeltaNo(m)
        /\ \E e \in {IF EventRaises(check_events(now))
                    THEN Raised(check_events(now))
                    ELSE check_events(now)} :
               /\ in_trigger' = e.in_trigger
               /\ trigger_time' = e.trigger_time
               /\ cycle_count' = e.cycle_count
               /\ stop_loss_count' = e.stop_loss_count
               /\ stopped_out' = e.stopped_out
               /\ entry_ask' = e.entry_ask
               /\ emitted' = e.emitted
               /\ log_len + Len(e.emitted) <= MaxLog
               /\ log_len' = log_len + Len(e.emitted)
               /\ delivered' = [history |-> <<>>, trades |-> e.emitted]
               /\ poll_armed' = (e.emitted = <<>> \/ trades_open)
        /\ last' = [op |-> "data"]
        /\ UNCHANGED <<ticker, expiry, contract_start, no_entry_after,
                       max_cycles, sl_delay, running, future, edits, q_roll,
                       sessions, book_ws, sent, fetchers, shared_strike,
                       shared_btc_price, history_open, trades_open,
                       tick_armed,
                   q_strike, trk_strike, pct_samples,
                   pending_autosave, skip_first_save, session_start_idx>>

\* _roll, lines 522-528: the cycle tracking of the next contract
ResetKeepsStop ==
    [in_trigger |-> FALSE, trigger_time |-> None, cycle_count |-> 0,
     stop_loss_count |-> 0, stopped_out |-> stopped_out]

ResetTracking ==
    [in_trigger |-> FALSE, trigger_time |-> None, cycle_count |-> 0,
     stop_loss_count |-> 0, stopped_out |-> FALSE]

\* _roll, lines 515-520: the contract-end callback raises
RollRaises ==
    CombinedEnd(SinkCalls(ticker, cycle_count, stop_loss_count,
                          in_trigger)).raised

\* _roll left at the callback that raised: the stream task has been asked to
\* stop (lines 499-500) and nothing after line 520 is run
RollRaised ==
    /\ sessions' = [sessions EXCEPT ![future] = RequestCancel(@)]
    /\ UNCHANGED <<q_roll, in_trigger, trigger_time, cycle_count,
                   stop_loss_count, stopped_out, expiry, ticker,
                   contract_start, yes, no, entry_ask, future, shared_strike,
                   fetchers, trk_strike, pct_samples>>

\* _roll run to its end: reset, next contract, marker, new stream task
RollThrough(t) ==
    /\ q_roll' = Append(q_roll, Marker(TickerOf(Compute(t)), cycle_count,
                                       OpenTrigStr, stop_loss_count))
    /\ \E z \in {ResetTracking} :
           /\ in_trigger' = z.in_trigger
           /\ trigger_time' = z.trigger_time
           /\ cycle_count' = z.cycle_count
           /\ stop_loss_count' = z.stop_loss_count
           /\ stopped_out' = z.stopped_out
    /\ expiry' = Compute(t)
    /\ ticker' = TickerOf(Compute(t))
    /\ contract_start' = Compute(t) - Duration
    /\ yes' = EmptyMap
    /\ no' = EmptyMap
    /\ entry_ask' = None
    /\ future' = future + 1
    /\ sessions' = Append([sessions EXCEPT ![future] = RequestCancel(@)],
                          NewSession(TickerOf(Compute(t))))
    /\ shared_strike' = None
    /\ pct_samples' = <<>>
    /\ trk_strike' = "fetching"
    /\ fetchers' = Append(fetchers, NewFetcher(TickerOf(Compute(t))))

\* BTC15Frame._roll (after the first): contract end, reset, next contract
Roll(t) ==
    /\ pending_autosave' = <<ticker>>
    /\ emitted' = SinkCalls(ticker, cycle_count, stop_loss_count, in_trigger)
    /\ \E c \in {CombinedEnd(SinkCalls(ticker, cycle_count, stop_loss_count,
                                       in_trigger))} :
           delivered' = [history |-> c.history, trades |-> c.trades]
    /\ IF RollRaises THEN RollRaised ELSE RollThrough(t)

\* BTC15Frame._poll, kind == "roll": _append_roll_marker, with the auto-save
\* of the contract the roll has ended.  The marker is taken in the 80 ms
\* cycle that follows the roll; the other handlers are taken to run once it
\* is handled
PollRoll ==
    /\ running
    /\ poll_armed
    /\ q_roll # <<>>
    /\ emitted' = EndRows(Head(q_roll))
    /\ delivered' = NoDelivery
    /\ q_roll' = Tail(q_roll)
    /\ log_len' = log_len + Len(EndRows(Head(q_roll)))
    /\ IF pending_autosave # <<>>
       THEN /\ last' = [op |-> "marker",
                        saved |-> IF skip_first_save THEN <<>>
                                  ELSE <<[ticker |-> pending_autosave[1],
                                          rows |-> AutoSaveRows(
                                                       log_len',
                                                       session_start_idx)]>>]
            /\ skip_first_save' = FALSE
            /\ session_start_idx' = log_len'
            /\ pending_autosave' = <<>>
       ELSE /\ last' = [op |-> "marker", saved |-> <<>>]
            /\ UNCHANGED <<skip_first_save, session_start_idx,
                           pending_autosave>>
    /\ UNCHANGED <<yes, no, side, now, ticker, expiry, contract_start,
                   in_trigger, trigger_time, cycle_count, stop_loss_count,
                   stopped_out, entry_ask, no_entry_after, max_cycles,
                   sl_delay, running, future, edits, sessions, book_ws, sent,
                   fetchers, shared_strike, shared_btc_price,
                   history_open, trades_open, poll_armed, tick_armed,
                   q_strike, trk_strike, pct_samples>>

\* BTC15Frame._tick: the 1-second countdown / auto-roll; it comes a second
\* after the roll, when the 80 ms _poll has long taken the marker
Tick ==
    /\ running
    /\ tick_armed
    /\ Drained
    /\ IF RollDue(now)
       THEN /\ Roll(now)
            /\ last' = [op |-> "tick", rolled |-> ~RollRaises]
            /\ tick_armed' = ~RollRaises
       ELSE /\ last' = [op |-> "tick", rolled |-> FALSE]
            /\ UNCHANGED tick_armed
            /\ emitted' = <<>>
            /\ delivered' = NoDelivery
            /\ UNCHANGED <<yes, no, ticker, expiry, contract_start,
                           in_trigger, trigger_time, cycle_count,
                           stop_loss_count, stopped_out, entry_ask,
                           future, q_roll, sessions, fetchers,
                           shared_strike, trk_strike, pct_samples,
                           pending_autosave>>
    /\ UNCHANGED <<side, now, no_entry_after, max_cycles, sl_delay, running,
                   edits, book_ws, sent, shared_btc_price,
                   history_open, trades_open, poll_armed, q_strike,
                   skip_first_save, log_len, session_start_idx>>

\* the wall clock moves on to the next instant at which a handler may run;
\* _poll, re-armed every 80 ms, has drained the queue by then
Advance ==
    /\ running
    /\ Drained
    /\ \E t \in Times : t > now
    /\ now' = CHOOSE t \in Times : t > now /\ \A u \in Times : u > now => t <= u
    /\ last' = [op |-> "idle"]
    /\ emitted' = <<>>
    /\ delivered' = NoDelivery
    /\ UNCHANGED <<yes, no, side, ticker, expiry, contract_start, in_trigger,
                   trigger_time, cycle_count, stop_loss_count, stopped_out,
                   entry_ask, no_entry_after, max_cycles, sl_delay, running,
                   future, edits, q_roll, sessions, book_ws, sent,
                   fetchers, shared_strike, shared_btc_price,
                   history_open, trades_open, poll_armed, tick_armed,
                   q_strike, trk_strike, pct_samples,
                   pending_autosave, skip_first_save, log_len, session_start_idx>>

\* BTC15Frame.stop
Stop ==
    /\ running
    /\ running' = FALSE
    /\ sessions' = [sessions EXCEPT ![future] = RequestCancel(@)]
    /\ last' = [op |-> "idle"]
    /\ emitted' = <<>>
    /\ delivered' = NoDelivery
    /\ UNCHANGED <<yes, no, side, now, ticker, expiry, contract_start,
                   in_trigger, trigger_time, cycle_count, stop_loss_count,
                   stopped_out, entry_ask, no_entry_after, max_cycles,
                   sl_delay, future, edits, q_roll, book_ws, sent,
                   fetchers, shared_strike, shared_btc_price,
                   history_open, trades_open, poll_armed, tick_armed,
                   q_strike, trk_strike, pct_samples,
                   pending_autosave, skip_first_save, log_len, session_start_idx>>

\* values the user sets in the three spinboxes of the rules bar
NoEntryChoices == {0, 1}
MaxCyclesChoices == {0, 2}
SlDelayChoices == {0, 3}

SetNoEntryAfter ==
    \E v \in NoEntryChoices :
        /\ running
        /\ Drained
        /\ edits < MaxEdits
        /\ edits' = edits + 1
        /\ v # no_entry_after
        /\ no_entry_after' = v
        /\ last' = [op |-> "idle"]
        /\ emitted' = <<>>
        /\ delivered' = NoDelivery
        /\ UNCHANGED <<yes, no, side, now, ticker, expiry, contract_start,
                       in_trigger, trigger_time, cycle_count, stop_loss_count,
                       stopped_out, entry_ask, max_cycles, sl_delay, running,
                       future, q_roll, sessions, book_ws, sent,
                   fetchers, shared_strike, shared_btc_price,
                   history_open, trades_open, poll_armed, tick_armed,
                   q_strike, trk_strike, pct_samples,
                   pending_autosave, skip_first_save, log_len, session_start_idx>>

SetMaxCycles ==
    \E v \in MaxCyclesChoices :
        /\ running
        /\ Drained
        /\ edits < MaxEdits
        /\ edits' = edits + 1
        /\ v # max_cycles
        /\ max_cycles' = v
        /\ last' = [op |-> "idle"]
        /\ emitted' = <<>>
        /\ delivered' = NoDelivery
        /\ UNCHANGED <<yes, no, side, now, ticker, expiry, contract_start,
                       in_trigger, trigger_time, cycle_count, stop_loss_count,
                       stopped_out, entry_ask, no_entry_after, sl_delay,
                       running, future, q_roll, sessions, book_ws, sent,
                   fetchers, shared_strike, shared_btc_price,
                   history_open, trades_open, poll_armed, tick_armed,
                   q_strike, trk_strike, pct_samples,
                   pending_autosave, skip_first_save, log_len, session_start_idx>>

SetSlDelay ==
    \E v \in SlDelayChoices :
        /\ running
        /\ Drained
        /\ edits < MaxEdits
        /\ edits' = edits + 1
        /\ v # sl_delay
        /\ sl_delay' = v
        /\ last' = [op |-> "idle"]
        /\ emitted' = <<>>
        /\ delivered' = NoDelivery
        /\ UNCHANGED <<yes, no, side, now, ticker, expiry, contract_start,
                       in_trigger, trigger_time, cycle_count, stop_loss_count,
                       stopped_out, entry_ask, no_entry_after, max_cycles,
                       running, future, q_roll, sessions, book_ws, sent,
                   fetchers, shared_strike, shared_btc_price,
                   history_open, trades_open, poll_armed, tick_armed,
                   q_strike, trk_strike, pct_samples,
                   pending_autosave, skip_first_save, log_len, session_start_idx>>

\* the running engine: feed, timer, clock and the user's edits
Next ==
    \/ PollData
    \/ PollRoll
    \/ Tick
    \/ SetNoEntryAfter
    \/ SetMaxCycles
    \/ SetSlDelay
    \/ Advance

Spec == Init /\ [][Next]_vars

\* the engine with its tab being closed at any moment
NextLife == Next \/ Stop

SpecLife == Init /\ [][NextLife]_vars

(***************************************************************************)
(* The contract frame with the tabs of its sinks being closed and a feed   *)
(* that may send a data message without its fields.                        *)
(***************************************************************************)
\* BTC15Frame._poll, kind == "data", on a message that lacks "msg" (or a
\* delta that lacks "side", "price" or "delta"): the lookup raises KeyError
\* before the book is written; _poll catches only queue.Empty, so the call
\* ends there and self.after(80, self._poll) is not reached
PollBad ==
    /\ running
    /\ poll_armed
    /\ q_roll = <<>>
    /\ poll_armed' = FALSE
    /\ last' = [op |-> "data_bad"]
    /\ emitted' = <<>>
    /\ delivered' = NoDelivery
    /\ UNCHANGED <<yes, no, side, now, ticker, expiry, contract_start,
                   in_trigger, trigger_time, cycle_count, stop_loss_count,
                   stopped_out, entry_ask, no_entry_after, max_cycles,
                   sl_delay, running, future, edits, q_roll, sessions,
                   book_ws, sent, fetchers, shared_strike, shared_btc_price,
                   history_open, trades_open, tick_armed,
                   q_strike, trk_strike, pct_samples,
                   pending_autosave, skip_first_save, log_len, session_start_idx>>

\* App._close_tab on the History tab: self._history_frame = None
CloseHistory ==
    /\ history_open
    /\ history_open' = FALSE
    /\ last' = [op |-> "close", tab |-> "history"]
    /\ emitted' = <<>>
    /\ delivered' = NoDelivery
    /\ UNCHANGED <<yes, no, side, now, ticker, expiry, contract_start,
                   in_trigger, trigger_time, cycle_count, stop_loss_count,
                   stopped_out, entry_ask, no_entry_after, max_cycles,
                   sl_delay, running, future, edits, q_roll, sessions,
                   book_ws, sent, fetchers, shared_strike, shared_btc_price,
                   trades_open, poll_armed, tick_armed, q_strike, trk_strike,
                   pct_samples,
                   pending_autosave, skip_first_save, log_len, session_start_idx>>

\* App._close_tab on the Trade History tab: self._trade_history_frame = None
CloseTrades ==
    /\ trades_open
    /\ trades_open' = FALSE
    /\ last' = [op |-> "close", tab |-> "trades"]
    /\ emitted' = <<>>
    /\ delivered' = NoDelivery
    /\ UNCHANGED <<yes, no, side, now, ticker, expiry, contract_start,
                   in_trigger, trigger_time, cycle_count, stop_loss_count,
                   stopped_out, entry_ask, no_entry_after, max_cycles,
                   sl_delay, running, future, edits, q_roll, sessions,
                   book_ws, sent, fetchers, shared_strike, shared_btc_price,
                   history_open, poll_armed, tick_armed, q_strike, trk_strike,
                   pct_samples,
                   pending_autosave, skip_first_save, log_len, session_start_idx>>

NextSinks ==
    \/ PollData
    \/ PollBad
    \/ PollRoll
    \/ Tick
    \/ Advance
    \/ CloseHistory
    \/ CloseTrades

SpecSinks == Init /\ [][NextSinks]_vars

\* the scheduler alone while the tabs of the sinks are being closed: the
\* 1-second timer fires for as long as it is armed, and the clock moves on
NextRoll ==
    \/ Tick
    \/ PollRoll
    \/ Advance
    \/ CloseHistory
    \/ CloseTrades

SpecRoll == Init /\ [][NextRoll]_vars /\ WF_vars(Tick) /\ WF_vars(Advance)

(***************************************************************************)
(* The stream tasks, which run on the asyncio loop thread beside the       *)
(* handlers of the Tk thread.                                              *)
(***************************************************************************)
\* the threads started by the frame leave the frame's book, cycle tracker
\* and contract alone: they only put on its queue and set the class-level
\* strike and spot price
ThreadWritesBook ==
    /\ yes' = FromLevels(<<<<60, 1>>>>)
    /\ UNCHANGED <<no, ticker, expiry, contract_start, in_trigger,
                   trigger_time, cycle_count, stop_loss_count, stopped_out>>

ThreadKeeps ==
    UNCHANGED <<yes, no, ticker, expiry, contract_start, in_trigger,
                trigger_time, cycle_count, stop_loss_count, stopped_out>>

\* BTC15Frame._ws_loop: one step of one of the frame's tasks
WsStep ==
    \E s \in DOMAIN sessions :
        \E ev \in SessionEvents(sessions[s].pc) :
            /\ CanStep(sessions[s])
            /\ \E r \in {SessionStep("btc15", ev, ticker, running)} :
                   /\ sessions' = [sessions EXCEPT ![s].pc = r.pc,
                                                   ![s].grace = FALSE]
                   /\ sent' = r.out
            /\ last' = [op |-> "ws", frame |-> "btc15", id |-> s, ev |-> ev]
            /\ emitted' = <<>>
            /\ delivered' = NoDelivery
            /\ ThreadKeeps
            /\ UNCHANGED <<side, now, entry_ask, no_entry_after, max_cycles,
                           sl_delay, running, future, edits, q_roll, book_ws,
                           fetchers, shared_strike, shared_btc_price,
                   history_open, trades_open, poll_armed, tick_armed,
                   q_strike, trk_strike, pct_samples,
                   pending_autosave, skip_first_save, log_len, session_start_idx>>

\* BTC15Frame._ws_loop, except asyncio.CancelledError: return
WsCancelled ==
    \E s \in DOMAIN sessions :
        /\ sessions[s].cancel
        /\ sessions[s].pc # "done"
        /\ sessions' = [sessions EXCEPT ![s].pc = "done", ![s].grace = FALSE]
        /\ sent' = <<>>
        /\ last' = [op |-> "ws", frame |-> "btc15", id |-> s,
                    ev |-> "cancelled"]
        /\ emitted' = <<>>
        /\ delivered' = NoDelivery
        /\ ThreadKeeps
        /\ UNCHANGED <<side, now, entry_ask, no_entry_after, max_cycles,
                       sl_delay, running, future, edits, q_roll, book_ws,
                       fetchers, shared_strike, shared_btc_price,
                   history_open, trades_open, poll_armed, tick_armed,
                   q_strike, trk_strike, pct_samples,
                   pending_autosave, skip_first_save, log_len, session_start_idx>>

\* BookFrame._ws_loop: one step of the tab's task
BookWsStep ==
    \E ev \in SessionEvents(book_ws.pc) :
        /\ CanStep(book_ws)
        /\ \E r \in {SessionStep("book", ev, book_ws.ticker, book_ws.running)} :
               /\ book_ws' = [book_ws EXCEPT !.pc = r.pc, !.grace = FALSE]
               /\ sent' = r.out
        /\ last' = [op |-> "ws", frame |-> "book", id |-> 1, ev |-> ev]
        /\ emitted' = <<>>
        /\ delivered' = NoDelivery
        /\ UNCHANGED <<yes, no, side, now, ticker, expiry, contract_start,
                       in_trigger, trigger_time, cycle_count, stop_loss_count,
                       stopped_out, entry_ask, no_entry_after, max_cycles,
                       sl_delay, running, future, edits, q_roll, sessions,
                   fetchers, shared_strike, shared_btc_price,
                   history_open, trades_open, poll_armed, tick_armed,
                   q_strike, trk_strike, pct_samples,
                   pending_autosave, skip_first_save, log_len, session_start_idx>>

\* BookFrame._ws_loop, except asyncio.CancelledError: return
BookWsCancelled ==
    /\ book_ws.cancel
    /\ book_ws.pc # "done"
    /\ book_ws' = [book_ws EXCEPT !.pc = "done", !.grace = FALSE]
    /\ sent' = <<>>
    /\ last' = [op |-> "ws", frame |-> "book", id |-> 1, ev |-> "cancelled"]
    /\ emitted' = <<>>
    /\ delivered' = NoDelivery
    /\ UNCHANGED <<yes, no, side, now, ticker, expiry, contract_start,
                   in_trigger, trigger_time, cycle_count, stop_loss_count,
                   stopped_out, entry_ask, no_entry_after, max_cycles,
                   sl_delay, running, future, edits, q_roll, sessions,
                   fetchers, shared_strike, shared_btc_price,
                   history_open, trades_open, poll_armed, tick_armed,
                   q_strike, trk_strike, pct_samples,
                   pending_autosave, skip_first_save, log_len, session_start_idx>>

\* BookFrame.stop
BookStop ==
    /\ book_ws.running
    /\ book_ws' = [RequestCancel(book_ws) EXCEPT !.running = FALSE]
    /\ sent' = <<>>
    /\ last' = [op |-> "idle"]
    /\ emitted' = <<>>
    /\ delivered' = NoDelivery
    /\ UNCHANGED <<yes, no, side, now, ticker, expiry, contract_start,
                   in_trigger, trigger_time, cycle_count, stop_loss_count,
                   stopped_out, entry_ask, no_entry_after, max_cycles,
                   sl_delay, running, future, edits, q_roll, sessions,
                   fetchers, shared_strike, shared_btc_price,
                   history_open, trades_open, poll_armed, tick_armed,
                   q_strike, trk_strike, pct_samples,
                   pending_autosave, skip_first_save, log_len, session_start_idx>>

\* BTC15Frame._fetch_strike: one attempt of one of the threads
StrikeStep ==
    \E i \in DOMAIN fetchers :
        \E res \in {"found", "empty", "raised"} :
            /\ fetchers[i].pc = "run"
            /\ \E r \in {FetchStep(fetchers[i], res)} :
                   /\ fetchers' = [fetchers EXCEPT ![i].pc = r.pc,
                                                   ![i].attempt = r.attempt]
                   /\ shared_strike' = IF r.strike = <<>> THEN shared_strike
                                       ELSE r.strike[1]
                   /\ sent' = r.out
                   /\ q_strike' = q_strike \o StrikeMsgs(r.out)
            /\ last' = [op |-> "strike", id |-> i, res |-> res]
            /\ emitted' = <<>>
            /\ delivered' = NoDelivery
            /\ ThreadKeeps
            /\ UNCHANGED <<side, now, entry_ask, no_entry_after, max_cycles,
                           sl_delay, running, future, edits, q_roll, sessions,
                           book_ws, shared_btc_price, history_open,
                           trades_open, poll_armed, tick_armed, trk_strike,
                           pct_samples,
                   pending_autosave, skip_first_save, log_len, session_start_idx>>

\* BTC15Frame._btc_price_loop: one round of the spot price thread
PriceStep ==
    \E p \in BtcPrices \cup {None} :
        /\ IF p = None
           THEN sent' = <<>> /\ UNCHANGED shared_btc_price
           ELSE sent' = <<QPut("btc_price", p)>> /\ shared_btc_price' = p
        /\ last' = [op |-> "price", price |-> p]
        /\ emitted' = <<>>
        /\ delivered' = NoDelivery
        /\ ThreadKeeps
        /\ UNCHANGED <<side, now, entry_ask, no_entry_after, max_cycles,
                       sl_delay, running, future, edits, q_roll, sessions,
                       book_ws, fetchers, shared_strike,
                   history_open, trades_open, poll_armed, tick_armed,
                   q_strike, trk_strike, pct_samples,
                   pending_autosave, skip_first_save, log_len, session_start_idx>>

\* BTC15Frame._poll, kind == "strike" or "strike_failed": the outcome of a
\* fetcher is taken off the queue
PollStrike ==
    /\ running
    /\ poll_armed
    /\ q_strike # <<>>
    /\ q_strike' = Tail(q_strike)
    /\ IF Head(q_strike).kind = "strike"
       THEN /\ shared_strike' = Head(q_strike).text
            /\ trk_strike' = update_tracker(Head(q_strike).text)
       ELSE /\ trk_strike' = "unavailable"
            /\ UNCHANGED shared_strike
    /\ last' = [op |-> "strike_msg", kind |-> Head(q_strike).kind]
    /\ emitted' = <<>>
    /\ delivered' = NoDelivery
    /\ UNCHANGED <<yes, no, side, now, ticker, expiry, contract_start,
                   in_trigger, trigger_time, cycle_count, stop_loss_count,
                   stopped_out, entry_ask, no_entry_after, max_cycles,
                   sl_delay, running, future, edits, q_roll, sessions,
                   book_ws, sent, fetchers, shared_btc_price, history_open,
                   trades_open, poll_armed, tick_armed, pct_samples,
                   pending_autosave, skip_first_save, log_len, session_start_idx>>

\* BTC15Frame._poll, kind == "btc_price": one of the prices the spot price
\* loop has queued; they come as a steady stream and are taken as they come
PollPrice ==
    \E p \in BtcPrices :
        /\ running
        /\ poll_armed
        /\ shared_btc_price # None
        /\ Len(pct_samples) < MaxSamples
        /\ shared_btc_price' = p
        /\ pct_samples' = add_pct_sample(pct_samples, now, p)
        /\ trk_strike' = update_tracker(shared_strike)
        /\ last' = [op |-> "price_msg", price |-> p,
                    dropped |-> Dropped(pct_samples, now, p)]
        /\ emitted' = <<>>
        /\ delivered' = NoDelivery
        /\ UNCHANGED <<yes, no, side, now, ticker, expiry, contract_start,
                       in_trigger, trigger_time, cycle_count, stop_loss_count,
                       stopped_out, entry_ask, no_entry_after, max_cycles,
                       sl_delay, running, future, edits, q_roll, sessions,
                       book_ws, sent, fetchers, shared_strike, history_open,
                       trades_open, poll_armed, tick_armed, q_strike,
                   pending_autosave, skip_first_save, log_len, session_start_idx>>

\* BTC15Frame._log_tick: the 500 ms timer of the frame
LogTick ==
    /\ running
    /\ shared_btc_price # None => Len(pct_samples) < MaxSamples
    /\ pct_samples' = add_pct_sample(pct_samples, now, shared_btc_price)
    /\ log_len < MaxTickLog
    /\ log_len' = log_len + 1
    /\ trk_strike' = update_tracker(shared_strike)
    /\ last' = [op |-> "log_tick", price |-> shared_btc_price,
                dropped |-> Dropped(pct_samples, now, shared_btc_price)]
    /\ emitted' = <<>>
    /\ delivered' = NoDelivery
    /\ UNCHANGED <<yes, no, side, now, ticker, expiry, contract_start,
                   in_trigger, trigger_time, cycle_count, stop_loss_count,
                   stopped_out, entry_ask, no_entry_after, max_cycles,
                   sl_delay, running, future, edits, q_roll, sessions,
                   book_ws, sent, fetchers, shared_strike, shared_btc_price,
                   history_open, trades_open, poll_armed, tick_armed,
                   q_strike, pending_autosave, skip_first_save,
                   session_start_idx>>

\* _poll without its first two lines
PollRunsStopped == TRUE

\* _poll, lines 664-665: a stopped frame handles nothing
PollRuns == running

\* BTC15Frame._poll, kind == "data", for the book message that the latest
\* step of a stream task has put on the queue: the 80 ms poll that follows
\* the put takes it, whichever task has put it
PollQueued ==
    \E m \in EngineMsgs :
        /\ PollRuns
        /\ poll_armed
        /\ q_roll = <<>>
        /\ last.op = "ws"
        /\ last.frame = "btc15"
        /\ sent = <<QPut("data", "book")>>
        /\ sent' = <<>>
        /\ UNCHANGED <<now, side>>
        /\ IF m.op = "snapshot"
           THEN yes' = SnapshotYes(m) /\ no' = SnapshotNo(m)
           ELSE /\ FeedBounded(DeltaYes(m), DeltaNo(m))
                /\ yes' = DeltaYes(m)
                /\ no' = DeltaNo(m)
        /\ \E e \in {IF EventRaises(check_events(now))
                    THEN Raised(check_events(now))
                    ELSE check_events(now)} :
               /\ in_trigger' = e.in_trigger
               /\ trigger_time' = e.trigger_time
               /\ cycle_count' = e.cycle_count
               /\ stop_loss_count' = e.stop_loss_count
               /\ stopped_out' = e.stopped_out
               /\ entry_ask' = e.entry_ask
               /\ emitted' = e.emitted
               /\ log_len + Len(e.emitted) <= MaxLog
               /\ log_len' = log_len + Len(e.emitted)
               /\ delivered' = [history |-> <<>>, trades |-> e.emitted]
               /\ poll_armed' = (e.emitted = <<>> \/ trades_open)
        /\ last' = [op |-> "queued", from |-> last.id]
        /\ UNCHANGED <<ticker, expiry, contract_start, no_entry_after,
                       max_cycles, sl_delay, running, future, edits, q_roll,
                       sessions, book_ws, fetchers, shared_strike,
                       shared_btc_price, history_open, trades_open,
                       tick_armed, q_strike, trk_strike, pct_samples,
                       pending_autosave, skip_first_save, session_start_idx>>

\* the tabs are opened half a minute before a quarter hour
LateStart == StartTime + 870

InitStream == InitAt(LateStart)

NextStream ==
    \/ WsStep
    \/ WsCancelled
    \/ BookWsStep
    \/ BookWsCancelled
    \/ BookStop
    \/ Tick
    \/ PollRoll
    \/ Advance
    \/ Stop

SpecStream == InitStream /\ [][NextStream]_vars

\* the threads of the contract frame beside its timer
NextThreads ==
    \/ WsStep
    \/ WsCancelled
    \/ StrikeStep
    \/ PriceStep
    \/ Tick
    \/ PollRoll
    \/ Advance

SpecThreads == InitStream /\ [][NextThreads]_vars

\* the strike fetchers beside the timer that starts them; a thread that is
\* started runs, and each of its requests returns or raises
NextFetch ==
    \/ StrikeStep
    \/ Tick
    \/ PollRoll
    \/ Advance

SpecFetch == InitStream /\ [][NextFetch]_vars /\ WF_vars(StrikeStep)

\* the strike of the contract: its fetchers, the handler of their outcomes
\* and the timers of the frame
NextStrike ==
    \/ StrikeStep
    \/ PollStrike
    \/ LogTick
    \/ Tick
    \/ PollRoll
    \/ Advance

SpecStrike == InitStream /\ [][NextStrike]_vars

\* the window of spot price samples over a whole contract
NextWindow ==
    \/ PriceStep
    \/ PollPrice
    \/ LogTick
    \/ Tick
    \/ PollRoll
    \/ Advance

SpecWindow == Init /\ [][NextWindow]_vars

\* the stream tasks, the handler of the book messages they queue, the
\* timer that rolls and the tab being closed
NextQueue ==
    \/ WsStep
    \/ WsCancelled
    \/ PollQueued
    \/ Tick
    \/ PollRoll
    \/ Advance
    \/ Stop

SpecQueue == InitStream /\ [][NextQueue]_vars

(***************************************************************************)
(* The log of the frame and the auto-save of each contract's rows, over    *)
(* several contracts and for tabs opened at different moments of one.      *)
(***************************************************************************)
MaxContracts == 3  \* contracts the frame is followed through

\* moments at which the tab is opened: on the quarter hour, 30 s and 31 s
\* into the contract, and half a minute before its end
StartTimes == {StartTime, StartTime + SkipAfter, StartTime + SkipAfter + 1,
               LateStart}

InitPersist == \E t \in StartTimes : InitAt(t)

\* BTC15Frame._clear_log, the Clear Log button
ClearLog ==
    /\ log_len' = 0
    /\ last' = [op |-> "clear"]
    /\ emitted' = <<>>
    /\ delivered' = NoDelivery
    /\ UNCHANGED <<yes, no, side, now, ticker, expiry, contract_start,
                   in_trigger, trigger_time, cycle_count, stop_loss_count,
                   stopped_out, entry_ask, no_entry_after, max_cycles,
                   sl_delay, running, future, edits, q_roll, sessions,
                   book_ws, sent, fetchers, shared_strike, shared_btc_price,
                   history_open, trades_open, poll_armed, tick_armed,
                   q_strike, trk_strike, pct_samples, pending_autosave,
                   skip_first_save, session_start_idx>>

\* the wall clock reaches the expiry of the contract
AdvanceToExpiry ==
    /\ running
    /\ Drained
    /\ now < expiry
    /\ future < MaxContracts
    /\ now' = expiry
    /\ last' = [op |-> "idle"]
    /\ emitted' = <<>>
    /\ delivered' = NoDelivery
    /\ UNCHANGED <<yes, no, side, ticker, expiry, contract_start, in_trigger,
                   trigger_time, cycle_count, stop_loss_count, stopped_out,
                   entry_ask, no_entry_after, max_cycles, sl_delay, running,
                   future, edits, q_roll, sessions, book_ws, sent,
                   fetchers, shared_strike, shared_btc_price,
                   history_open, trades_open, poll_armed, tick_armed,
                   q_strike, trk_strike, pct_samples, pending_autosave,
                   skip_first_save, log_len, session_start_idx>>

NextPersist ==
    \/ LogTick
    \/ ClearLog
    \/ Tick
    \/ PollRoll
    \/ AdvanceToExpiry

SpecPersist == InitPersist /\ [][NextPersist]_vars

(***************************************************************************)
(* BTC15Frame._compute on its own: the wall clock is drawn from two days   *)
(* of quarter-hour edges and their neighbours, and the function is applied *)
(* to it the way _roll does.                                               *)
(***************************************************************************)
ClockDays == {0, 1}
ClockHours == {0, 12, 23}
ClockMinutes == {0, 7, 14, 15, 16, 29, 30, 44, 45, 59}
ClockSeconds == {0, 1, 30, 59}

ClockTimes ==
    {d * 86400 + h * 3600 + m * 60 + sec :
        d \in ClockDays, h \in ClockHours, m \in ClockMinutes,
        sec \in ClockSeconds}

InitCompute ==
    /\ now \in ClockTimes
    /\ yes = EmptyMap
    /\ no = EmptyMap
    /\ last = [op |-> "init"]
    /\ side = "yes"
    /\ ticker = NoTicker
    /\ expiry = None
    /\ contract_start = None
    /\ in_trigger = FALSE
    /\ trigger_time = None
    /\ cycle_count = 0
    /\ stop_loss_count = 0
    /\ stopped_out = FALSE
    /\ entry_ask = None
    /\ no_entry_after = 0
    /\ max_cycles = 0
    /\ sl_delay = 0
    /\ running = TRUE
    /\ future = 0
    /\ emitted = <<>>
    /\ edits = 0
    /\ q_roll = <<>>
    /\ sessions = <<>>
    /\ book_ws = None
    /\ sent = <<>>
    /\ fetchers = <<>>
    /\ shared_strike = None
    /\ shared_btc_price = None
    /\ history_open = TRUE
    /\ trades_open = TRUE
    /\ poll_armed = TRUE
    /\ tick_armed = TRUE
    /\ delivered = NoDelivery
    /\ q_strike = <<>>
    /\ trk_strike = "fetching"
    /\ pct_samples = <<>>
    /\ pending_autosave = <<>>
    /\ skip_first_save = FALSE
    /\ log_len = 0
    /\ session_start_idx = 0

\* _roll, lines 536-539: ticker, expiry = _compute(now); start = expiry - 15 min
ApplyCompute ==
    /\ last.op = "init"
    /\ expiry' = Compute(now)
    /\ ticker' = TickerOf(Compute(now))
    /\ contract_start' = Compute(now) - Duration
    /\ last' = [op |-> "compute"]
    /\ UNCHANGED <<yes, no, side, now, in_trigger, trigger_time, cycle_count,
                   stop_loss_count, stopped_out, entry_ask, no_entry_after,
                   max_cycles, sl_delay, running, future, emitted, edits,
                   q_roll, sessions, book_ws, sent,
                   fetchers, shared_strike, shared_btc_price,
                   history_open, trades_open, poll_armed, tick_armed,
                   delivered,
                   q_strike, trk_strike, pct_samples,
                   pending_autosave, skip_first_save, log_len, session_start_idx>>

NextCompute == ApplyCompute

SpecCompute == InitCompute /\ [][NextCompute]_vars

(***************************************************************************)
(* Properties of the order book, checked under SpecBook.                   *)
(***************************************************************************)
Sides == {"yes", "no"}
Opposite(s) == IF s = "yes" THEN "no" ELSE "yes"
MapOf(s) == IF s = "yes" THEN yes ELSE no
AllPositive == \A q \in Quantities(yes) \cup Quantities(no) : q > 0

\* C1: after any sequence of snapshots and deltas, for each side s:
\* best_ask(s) = 100 - best_bid(opposite(s)) whenever the opposite map is
\* non-empty, best_ask(s) is None exactly when the opposite map is empty,
\* and best_bid(s) is the largest price key of s's own map, None exactly
\* when that map is empty.
C1_AskIsComplementOfOppositeBid ==
    \A s \in Sides :
        /\ DOMAIN MapOf(Opposite(s)) # {}
              => best_ask(s) = 100 - best_bid(Opposite(s))
        /\ (best_ask(s) = None) <=> (DOMAIN MapOf(Opposite(s)) = {})
        /\ (best_bid(s) = None) <=> (DOMAIN MapOf(s) = {})
        /\ DOMAIN MapOf(s) # {}
              => /\ best_bid(s) \in DOMAIN MapOf(s)
                 /\ \A p \in DOMAIN MapOf(s) : p <= best_bid(s)

\* a delta has left two levels on NO and one on YES: the ask of YES is the
\* complement of the highest NO bid, the ask of NO that of the YES bid
C1_Witness ==
    /\ last.op = "delta"
    /\ DOMAIN no = {30, 65}
    /\ DOMAIN yes = {30}
    /\ best_ask("yes") = 35
    /\ best_ask("no") = 70
    /\ best_bid("no") = 65

\* C2: a delta applied to a book whose stored quantities are all positive
\* leaves every stored quantity positive, and the level it addresses is
\* absent from its map when the computed quantity is <= 0; the empty book
\* and a snapshot of positive quantities are such books.
C2_DeltasKeepQuantitiesPositive ==
    [][/\ (last'.op = "delta" /\ AllPositive) => AllPositive'
       /\ (last'.op = "delta"
             /\ Get(IF last'.side = "yes" THEN yes ELSE no, last'.price)
                  + last'.delta <= 0)
            => last'.price \notin
                  DOMAIN (IF last'.side = "yes" THEN yes' ELSE no')
       /\ (last'.op = "snapshot"
             /\ (\A i \in DOMAIN last'.yes : last'.yes[i][2] > 0)
             /\ (\A j \in DOMAIN last'.no : last'.no[j][2] > 0))
            => AllPositive'
       /\ (last.op = "init") => AllPositive]_vars

\* a negative delta has taken a level off a book of positive quantities
\* that still holds another level
C2_Witness ==
    /\ last.op = "delta"
    /\ last.delta < 0
    /\ last.side = "yes"
    /\ last.price = 30
    /\ DOMAIN yes = {65}
    /\ AllPositive

(***************************************************************************)
(* Properties of the cycle tracker, checked under Spec.  The SignalState   *)
(* of the specification is read off the two flags of _check_events.        *)
(***************************************************************************)
IsStopped == stopped_out
IsTriggered == in_trigger /\ ~stopped_out
IsIdle == ~in_trigger /\ ~stopped_out

\* the step is a book update handled by _poll / a roll performed by _tick
DataStep == last'.op = "data"
RollStep == last'.op = "tick" /\ last'.rolled

EngineKinds == {"ENTRY", "TARGET", "STOP_LOSS", "MILESTONE"}
Count(kind, evs) == Cardinality({i \in DOMAIN evs : evs[i].kind = kind})
EventOf(kind, evs) == evs[CHOOSE i \in DOMAIN evs : evs[i].kind = kind]

\* C3: an ENTRY is emitted only at a book update of an IDLE engine where
\* ask <= 40, the time to expiry is strictly greater than 30 s, and the
\* no-entry-after cutoff is off or not yet reached; the step leaves the
\* engine TRIGGERED with the trigger timestamp and the entry price recorded.
C3_EntryOnlyOutsideLockout ==
    [][("ENTRY" \in Kinds(emitted')) =>
          /\ DataStep
          /\ IsIdle
          /\ best_ask(side)' # None
          /\ best_ask(side)' <= EntryThreshold
          /\ expiry - now' > Lockout
          /\ \/ no_entry_after = 0
             \/ now' - contract_start < no_entry_after * 60
          /\ IsTriggered'
          /\ trigger_time' = now'
          /\ entry_ask' = best_ask(side)'
          /\ Count("ENTRY", emitted') = 1]_vars

C6_MilestoneOnlyAtFourthTarget ==
    [][/\ ("MILESTONE" \in Kinds(emitted'))
          => /\ "TARGET" \in Kinds(emitted')
             /\ cycle_count = MilestoneCycles - 1
             /\ cycle_count' = MilestoneCycles
       /\ ("TARGET" \in Kinds(emitted') /\ cycle_count' = MilestoneCycles)
          => Count("MILESTONE", emitted') = 1]_vars

\* C7: while the engine is STOPPED, a step that is not a roll emits no
\* ENTRY, TARGET, STOP_LOSS or MILESTONE and leaves the flags, the trigger
\* timestamp and both counters as they are; the roll leaves it IDLE.
C7_StoppedUntilRoll ==
    [][/\ (IsStopped /\ ~RollStep)
          => /\ Kinds(emitted') \cap EngineKinds = {}
             /\ UNCHANGED <<in_trigger, trigger_time, stopped_out,
                            cycle_count, stop_loss_count>>
       /\ RollStep
          => /\ IsIdle'
             /\ trigger_time' = None
             /\ cycle_count' = 0
             /\ stop_loss_count' = 0]_vars

\* a stopped engine has ignored a book update that offers an entry
C7_Witness ==
    /\ last.op = "data"
    /\ IsStopped
    /\ emitted = <<>>
    /\ best_ask(side) = 40
    /\ ~LockedOut(now)
    /\ ~PastCutoff(now)

\* C8: with max_cycles > 0 the TARGET that brings the cycle counter to
\* max_cycles leaves the engine STOPPED, a book update never leaves the
\* counter above max_cycles, and no ENTRY is emitted once the counter has
\* reached max_cycles; with max_cycles = 0 a TARGET never stops the engine.
C8_MaxCyclesLimitsTheContract ==
    [][/\ ("TARGET" \in Kinds(emitted') /\ max_cycles > 0
             /\ cycle_count' = max_cycles)
          => IsStopped'
       /\ (DataStep /\ max_cycles > 0) => cycle_count' <= max_cycles
       /\ ("ENTRY" \in Kinds(emitted') /\ max_cycles > 0)
          => cycle_count < max_cycles
       /\ ("TARGET" \in Kinds(emitted') /\ max_cycles = 0)
          => ~IsStopped']_vars

\* C9: a book update in TRIGGERED with bid >= 45 less than 2 s after the
\* trigger (no armed stop loss applying), or with ask <= 10 less than
\* sl_delay seconds after the trigger, leaves the engine TRIGGERED with
\* the same trigger timestamp, cycle counter and stop counter.
C9_NoiseCausesNoTransition ==
    [][(/\ DataStep
        /\ IsTriggered
        /\ \/ /\ best_bid(side)' >= TargetThreshold
              /\ now' - trigger_time < MinDwell
              /\ ~(/\ best_ask(side)' # None
                   /\ best_ask(side)' <= StopThreshold
                   /\ now' - trigger_time >= sl_delay)
           \/ /\ best_ask(side)' # None
              /\ best_ask(side)' <= StopThreshold
              /\ now' - trigger_time < sl_delay)
       => /\ IsTriggered'
          /\ UNCHANGED <<trigger_time, cycle_count, stop_loss_count>>]_vars

\* C10: a tick rolls exactly when now >= expiry: the roll ends the
\* contract, opens the next one and a new stream session; a tick before
\* the expiry leaves ticker, expiry, book, flags, trigger timestamp,
\* counters and stream session as they are.
C10_TickRollsIffExpired ==
    [][(last'.op = "tick") =>
          /\ last'.rolled <=> (now >= expiry)
          /\ (now >= expiry)
             => /\ Kinds(emitted') = {"CONTRACT_END"}
                /\ future' = future + 1
                /\ expiry' > now
                /\ ticker' # ticker
          /\ (now < expiry)
             => /\ UNCHANGED <<ticker, expiry, contract_start, yes, no,
                               in_trigger, trigger_time, stopped_out,
                               cycle_count, stop_loss_count, future>>
                /\ emitted' = <<>>]_vars

\* the tick at the very instant of the expiry has rolled to the next
\* quarter hour
C10_Witness ==
    /\ last.op = "tick"
    /\ last.rolled
    /\ now = Compute(StartTime)
    /\ expiry = Compute(StartTime) + Duration
    /\ future = 2

(***************************************************************************)
(* Properties of the roll, checked under Spec.                             *)
(***************************************************************************)
\* the step handles a queued roll marker (_append_roll_marker)
MarkerStep == last'.op = "marker"

\* C11: on every roll that ends a contract the CONTRACT_END summary handed
\* to the sinks, and the marker queued for the log, carry the cycle count,
\* the stop count and the open-trigger flag the engine held just before the
\* roll; the same step then leaves the counters at zero and no trigger open.
C11_SummaryCarriesPreRollCounts ==
    [][RollStep =>
          /\ emitted' = <<[kind |-> "CONTRACT_END", ticker |-> ticker,
                           cycles |-> cycle_count, stops |-> stop_loss_count,
                           open |-> in_trigger]>>
          /\ Len(q_roll') = Len(q_roll) + 1
          /\ q_roll'[Len(q_roll')].cycles = cycle_count
          /\ q_roll'[Len(q_roll')].stops = stop_loss_count
          /\ q_roll'[Len(q_roll')].open = (in_trigger /\ trigger_time # None)
          /\ cycle_count' = 0
          /\ stop_loss_count' = 0
          /\ ~in_trigger']_vars

\* a roll has just reported two cycles and a stop loss of the contract it
\* ended, and the counters are back at zero
C11_Witness ==
    /\ last.op = "tick"
    /\ last.rolled
    /\ Len(emitted) = 1
    /\ emitted[1].kind = "CONTRACT_END"
    /\ emitted[1].cycles = 2
    /\ emitted[1].stops = 1
    /\ cycle_count = 0
    /\ stop_loss_count = 0

\* C12: every roll, whatever the state before it, leaves the engine IDLE
\* with no trigger timestamp and both counters 0, and an empty book under
\* the identifier of the contract that is now open; the user's limits
\* (no-entry-after, max cycles, stop arm delay) and the side are untouched.
C12_RollResetsEngineKeepsConfig ==
    [][RollStep =>
          /\ IsIdle'
          /\ trigger_time' = None
          /\ cycle_count' = 0
          /\ stop_loss_count' = 0
          /\ yes' = EmptyMap
          /\ no' = EmptyMap
          /\ expiry' = Compute(now)
          /\ ticker' = TickerOf(expiry')
          /\ ticker' # ticker
          /\ UNCHANGED <<side, no_entry_after, max_cycles, sl_delay>>]_vars

\* a contract that was STOPPED by a stop loss, under a stop arm delay the
\* user had set, has been rolled: the engine is IDLE on an empty book and
\* the delay is still in force
C12_Witness ==
    /\ last.op = "tick"
    /\ last.rolled
    /\ Len(emitted) = 1
    /\ emitted[1].stops = 1
    /\ IsIdle
    /\ yes = EmptyMap
    /\ no = EmptyMap
    /\ sl_delay = 3

\* the CONTRACT_END summaries of the latest step: calls of the contract-end
\* sinks and CONTRACT END rows written to the log
Summaries(evs) == Count("CONTRACT_END", evs) + Count("CONTRACT_END_ROW", evs)

\* C13: a contract is finalized once: the roll that ends it hands exactly
\* one CONTRACT_END to the sinks and queues exactly one marker, each marker
\* writes exactly one CONTRACT END row, no other handler emits a summary,
\* and the initial roll of the construction, which ends no contract, has
\* emitted no summary at all.
C13_OneSummaryPerEndedContract ==
    /\ (last.op = "init") => Summaries(emitted) = 0
    /\ (last.op = "tick" /\ last.rolled)
       => /\ Count("CONTRACT_END", emitted) = 1
          /\ Count("CONTRACT_END_ROW", emitted) = 0
          /\ Len(q_roll) = 1
    /\ (last.op = "marker")
       => /\ Count("CONTRACT_END_ROW", emitted) = 1
          /\ Count("CONTRACT_END", emitted) = 0
    /\ (last.op \in {"data", "idle"} \/ (last.op = "tick" /\ ~last.rolled))
       => Summaries(emitted) = 0

(***************************************************************************)
(* Property of _compute, checked under SpecCompute.                        *)
(***************************************************************************)
QuarterHour(t) == t % 60 = 0 /\ (t % 3600) \div 60 \in {0, 15, 30, 45}

\* C14: for every wall-clock time, the computed expiry is the one quarter
\* hour edge (minute 0, 15, 30 or 45, zero seconds) that is later than now
\* and at most 15 minutes away; from minute 45 on it is the start of the
\* next hour, and of the next day after 23:45; the contract start, 15
\* minutes before the expiry, is not later than now; 12:07:00 gives the
\* expiry 12:15:00 and the start 12:00:00.
C14_ComputeNextQuarterHour ==
    (last.op = "compute") =>
        /\ expiry > now
        /\ expiry - now <= Duration
        /\ QuarterHour(expiry)
        /\ (\A b \in (now + 1)..(now + Duration) : QuarterHour(b) => b = expiry)
        /\ ((now % 3600) \div 60 >= 45)
           => /\ expiry = now - (now % 3600) + 3600
              /\ ((now % 86400) \div 3600 = 23)
                 => /\ expiry \div 86400 = (now \div 86400) + 1
                    /\ expiry % 86400 = 0
        /\ contract_start = expiry - Duration
        /\ contract_start <= now
        /\ ticker = <<"KXBTC15M", expiry \div 86400, (expiry % 86400) \div 3600,
                      (expiry % 3600) \div 60, (expiry % 3600) \div 60>>
        /\ (now = 12 * 3600 + 7 * 60)
           => (expiry = 12 * 3600 + 15 * 60 /\ contract_start = 12 * 3600)

\* one second before midnight of day 0 the expiry is 00:00:00 of day 1
C14_Witness ==
    /\ last.op = "compute"
    /\ now = 23 * 3600 + 59 * 60 + 59
    /\ expiry = 86400
    /\ contract_start = 86400 - Duration

\* the contract has seen no ENTRY so far: nothing counted, nothing open
Untriggered ==
    /\ cycle_count = 0
    /\ stop_loss_count = 0
    /\ ~in_trigger
    /\ ~stopped_out

NoEngineEvent(evs) == Kinds(evs) \cap EngineKinds = {}

\* C15: a contract starts with nothing counted and no trigger open; as long
\* as no book update shows an ask <= 40 it stays so and no ENTRY, TARGET,
\* STOP_LOSS or MILESTONE is emitted, whatever else happens; the roll that
\* ends it then reports cycle count 0, stop count 0 and no open trigger,
\* which the history shows as "no trigger" and the log as "NO TRIG".
C15_NoEntryMeansNoTrigger ==
    /\ Untriggered
    /\ [][/\ RollStep => Untriggered'
          /\ (Untriggered /\ ~RollStep
                 /\ (DataStep => \/ best_ask(side)' = None
                                 \/ best_ask(side)' > EntryThreshold))
             => (Untriggered' /\ NoEngineEvent(emitted'))
          /\ (Untriggered /\ RollStep)
             => /\ emitted' = <<[kind |-> "CONTRACT_END", ticker |-> ticker,
                                 cycles |-> 0, stops |-> 0, open |-> FALSE]>>
                /\ add_record(emitted'[1].cycles, emitted'[1].stops,
                              emitted'[1].open)
                     = [result |-> "no trigger", stop_suffix |-> FALSE]
                /\ EndRows(q_roll'[Len(q_roll')])[1].evt = "NO TRIG"]_vars

\* a contract has been rolled with nothing counted and no trigger open,
\* and the marker that will write its "NO TRIG" row is queued
C15_Witness ==
    /\ last.op = "tick"
    /\ last.rolled
    /\ emitted = <<[kind |-> "CONTRACT_END",
                    ticker |-> TickerOf(Compute(StartTime)),
                    cycles |-> 0, stops |-> 0, open |-> FALSE]>>
    /\ Len(q_roll) = 1
    /\ EndRows(q_roll[1])[1].evt = "NO TRIG"
    /\ Untriggered

(***************************************************************************)
(* Properties of the stream tasks, checked under SpecStream.               *)
(***************************************************************************)
\* the step is a step of a stream task; the task it belongs to
WsStepOf(frame) == last'.op = "ws" /\ last'.frame = frame
TaskBefore == IF last'.frame = "book" THEN book_ws ELSE sessions[last'.id]
TaskAfter == IF last'.frame = "book" THEN book_ws' ELSE sessions'[last'.id]

Statuses(outs) ==
    {outs[i].text : i \in {j \in DOMAIN outs : /\ outs[j].out = "put"
                                                 /\ outs[j].kind = "status"}}

Subscribes(outs) == {i \in DOMAIN outs : outs[i].out = "subscribe"}

\* C16: a live stream task that receives an explicit error message puts
\* exactly one status, the error, on its queue and ends; a task that has
\* ended never runs a step again, so it neither reconnects nor subscribes
\* nor queues anything afterwards.  Both frames.
C16_ErrorMessageEndsTheSession ==
    [][/\ (last'.op = "ws" /\ last'.ev = "error")
          => /\ TaskBefore.pc = "live"
             /\ sent' = <<QPut("status", "error")>>
             /\ TaskAfter.pc = "done"
       /\ (\A s \in DOMAIN sessions :
              (sessions[s].pc = "done")
                 => /\ sessions'[s].pc = "done"
                    /\ ~(WsStepOf("btc15") /\ last'.id = s))
       /\ (book_ws.pc = "done")
             => (book_ws'.pc = "done" /\ ~WsStepOf("book"))]_vars

\* a task of the contract frame has just ended on an error message, its
\* one status queued
C16_Witness ==
    /\ last.op = "ws"
    /\ last.frame = "btc15"
    /\ last.ev = "error"
    /\ sessions[last.id].pc = "done"
    /\ sent = <<QPut("status", "error")>>

Failures == {"connect_failed", "dropped", "undecodable"}

\* C17: when a connect fails, the connection drops or a message cannot be
\* decoded in a task that has not been cancelled, the task puts a
\* "reconnecting" status and enters the backoff; from the backoff it goes
\* back to connecting; a task that has not been cancelled ends only on an
\* explicit error message, never on such a failure.  Both frames.
C17_FailureLeadsToReconnect ==
    [][/\ (last'.op = "ws" /\ last'.ev \in Failures /\ ~TaskBefore.cancel)
          => /\ sent' = <<QPut("status", "reconnecting")>>
             /\ TaskAfter.pc = "backoff"
       /\ (last'.op = "ws" /\ last'.ev = "woke")
          => (TaskBefore.pc = "backoff" /\ TaskAfter.pc = "connecting")
       /\ (last'.op = "ws" /\ TaskBefore.pc # "done" /\ TaskAfter.pc = "done")
          => (TaskAfter.cancel \/ last'.ev = "error")]_vars

\* C18: once cancel() has been called on a stream task, whatever it was
\* doing (connecting, waiting for a message, backing off), the task ends
\* without a further output: no step it still runs puts an error,
\* reconnecting or disconnected status or completes a connection, and the
\* step that takes the cancellation sends and queues nothing.
C18_CancelEndsSilently ==
    [][(last'.op = "ws" /\ TaskBefore.cancel)
          => /\ Statuses(sent') \cap {"error", "reconnecting", "disconnected"}
                  = {}
             /\ last'.ev # "connected"
             /\ (last'.ev = "cancelled")
                => (sent' = <<>> /\ TaskAfter.pc = "done")]_vars

\* C19: the step in which a stream task's connection is established sends
\* exactly one subscribe command, ahead of anything it puts on the queue,
\* and the command names the ticker the task was started for; no other
\* step sends a subscribe, and messages are forwarded only by a task that
\* is live, that is after its subscribe.  Rolls at any moment included.
C19_SubscribeNamesOwnContract ==
    [][(last'.op = "ws")
          => /\ (last'.ev = "connected")
                => /\ Subscribes(sent') = {1}
                   /\ sent'[1].ticker = TaskBefore.ticker
             /\ (last'.ev # "connected") => Subscribes(sent') = {}
             /\ (last'.ev \in {"data", "ticker"}) => TaskBefore.pc = "live"]_vars

\* the book, the cycle tracker and the contract of the frame
Guarded == <<yes, no, in_trigger, trigger_time, cycle_count, stop_loss_count,
             stopped_out, ticker, expiry, contract_start>>

\* the steps that run off the Tk thread: stream tasks and pollers
ThreadOps == {"ws", "strike", "price"}

\* C20: the order book, the cycle tracker (in trigger, trigger time, cycle
\* and stop-loss counts, stopped out) and the contract (ticker, expiry,
\* contract start) change only in a handler of the Tk thread: no step of a
\* stream task, of a strike fetcher or of the spot price loop changes any
\* of them, however the steps interleave with the timer and its rolls.
C20_OnlyTkThreadWritesEngine ==
    [][(last'.op \in ThreadOps) => Guarded' = Guarded]_vars

\* a fetcher started by a roll has stored its strike and the task of the
\* ended contract has run a step, with the new contract's tracker in place
C20_Witness ==
    /\ last.op = "ws"
    /\ Len(fetchers) = 2
    /\ fetchers[2].pc = "done"
    /\ shared_strike = StrikeOf(ticker)
    /\ shared_btc_price # None
    /\ ticker = sessions[2].ticker

\* the class attributes every contract frame reads on the Tk thread
SharedVars == <<shared_strike, shared_btc_price>>

\* C21: a stream task, a strike fetcher and the spot price loop hand their
\* results to the Tk thread only by putting messages on the frame's queue:
\* none of their steps writes the strike or the last spot price that the
\* handlers of the frames read.
C21_ThreadsOnlyEnqueue ==
    [][(last'.op \in ThreadOps) => SharedVars' = SharedVars]_vars

\* the engine events and contract ends among what a step emitted, in order
IsOccurrence(ev) == ev.kind \in EngineKinds \cup {"CONTRACT_END"}
Occurrences(evs) == SelectSeq(evs, IsOccurrence)
IsEnd(ev) == ev.kind = "CONTRACT_END"
Ends(evs) == SelectSeq(evs, IsEnd)

\* C22: in every step, what the Trade History sink received is exactly the
\* ENTRY, TARGET, STOP_LOSS and MILESTONE events and contract ends of that
\* step, each once and in the order emitted, and what the History sink
\* received is exactly the step's contract ends; with a tab of either sink
\* closed included.
C22_EveryOccurrenceReachesEverySink ==
    /\ delivered.trades = Occurrences(emitted)
    /\ delivered.history = Ends(emitted)

\* C23: while the frame is running its _poll stays scheduled, whatever
\* message it has just handled (a data message without its fields, an event
\* whose sink raises) and whatever the threads and the tabs did.
C23_ConsumerStaysScheduled == running => poll_armed

\* the outcomes among what a thread step queued
Outcomes(outs) ==
    {i \in DOMAIN outs : /\ outs[i].out = "put"
                         /\ outs[i].kind \in {"strike", "strike_failed"}}

FetcherBefore == fetchers[last'.id]
FetcherAfter == fetchers'[last'.id]

\* C24: a strike fetcher makes at most six attempts: only a running thread
\* makes one, an attempt that does not end the thread counts one up and
\* leaves fewer than six made, and it queues no outcome; the attempt that
\* ends the thread queues exactly one outcome, the strike of the thread's
\* own contract if it was found and the strike_failed report if not; and
\* every thread started does end.
C24_StrikeLookupEndsWithOneOutcome ==
    /\ [][(last'.op = "strike")
            => /\ FetcherBefore.pc = "run"
               /\ FetcherBefore.attempt < MaxAttempts
               /\ (FetcherAfter.pc = "run")
                  => /\ FetcherAfter.attempt = FetcherBefore.attempt + 1
                     /\ FetcherAfter.attempt < MaxAttempts
                     /\ Outcomes(sent') = {}
               /\ (FetcherAfter.pc = "done")
                  => /\ Cardinality(Outcomes(sent')) = 1
                     /\ \A i \in Outcomes(sent') :
                            sent'[i] = IF last'.res = "found"
                                       THEN QPut("strike",
                                                 StrikeOf(FetcherBefore.ticker))
                                       ELSE QPut("strike_failed", None)]_vars
    /\ \A i \in 1..2 :
           [](Len(fetchers) >= i
              => <>(Len(fetchers) >= i /\ fetchers[i].pc = "done"))

\* a thread has given up at its sixth attempt that found nothing
C24_Witness ==
    /\ last.op = "strike"
    /\ last.res = "empty"
    /\ fetchers[last.id].pc = "done"
    /\ sent = <<QPut("strike_failed", None)>>
    /\ Len(fetchers) = 2

\* C25: once the frame has marked the strike unavailable, on the
\* strike_failed report of the contract's fetcher, the label stays
\* "unavailable" until the roll to the next contract: no later step of the
\* same contract puts it back to "fetching" or to anything else.
C25_UnavailableStaysUntilRoll ==
    [][(trk_strike = "unavailable" /\ ~RollStep)
          => trk_strike' = "unavailable"]_vars

\* C26: the window of spot price samples changes only where the frame
\* handles a btc_price message of the spot price loop: no other handler of
\* a contract frame appends a sample to it or clears it.
C26_OnlyPriceMessagesWriteWindow ==
    [][(pct_samples' # pct_samples) => last'.op = "price_msg"]_vars

\* a step that ran _add_pct_sample with a price at hand
AddedSample == last'.op \in {"price_msg", "log_tick"} /\ last'.price # None

Sorted(samples) ==
    \A i, j \in DOMAIN samples : i <= j => samples[i][1] <= samples[j][1]

\* C27: after every _add_pct_sample with a price at hand the window is
\* not empty, its timestamps are in non-decreasing order, its newest sample
\* is the one just added, no sample kept is more than 900 seconds older than
\* it, and what was dropped is a prefix of the window before the call.
C27_AddSampleKeepsWindowOrdered ==
    [][AddedSample
          => /\ pct_samples' # <<>>
             /\ pct_samples'[Len(pct_samples')] = <<now, last'.price>>
             /\ Sorted(pct_samples')
             /\ \A i \in DOMAIN pct_samples' :
                    now - pct_samples'[i][1] <= Window
             /\ \E k \in 0..Len(pct_samples) :
                    pct_samples' = SubSeq(pct_samples, k + 1, Len(pct_samples))
                                   \o <<<<now, last'.price>>>>]_vars

\* a sample was added more than 900 seconds after the oldest one: that one
\* was dropped and a later one kept
C27_Witness ==
    /\ last.op \in {"price_msg", "log_tick"}
    /\ last.price # None
    /\ last.dropped > 0
    /\ Len(pct_samples) >= 2

\* the prices a list of levels names, and the quantity it gives a price
PricesOf(levels) == {levels[i][1] : i \in DOMAIN levels}
QtyIn(levels, p) ==
    levels[CHOOSE i \in DOMAIN levels :
               /\ levels[i][1] = p
               /\ \A j \in DOMAIN levels : levels[j][1] = p => j <= i][2]
Holds(book, levels) ==
    /\ DOMAIN book = PricesOf(levels)
    /\ \A p \in PricesOf(levels) : book[p] = QtyIn(levels, p)

\* C28: after a snapshot is applied, whatever the maps held before, the yes
\* map holds exactly the prices of the snapshot's yes levels with their
\* quantities, the no map exactly those of its no levels, and nothing else;
\* applying the same snapshot again changes neither map.
C28_SnapshotReplacesBothMaps ==
    [][/\ (last'.op = "snapshot")
          => /\ Holds(yes', last'.yes)
             /\ Holds(no', last'.no)
       /\ (last.op = "snapshot" /\ last' = last)
          => (yes' = yes /\ no' = no)]_vars

\* a snapshot with one yes level and no no level has been applied
C28_Witness ==
    /\ last.op = "snapshot"
    /\ last.yes = <<<<30, 1>>>>
    /\ last.no = <<>>
    /\ DOMAIN yes = {30}
    /\ yes[30] = 1
    /\ no = EmptyMap

\* C29: a delta whose side is neither "yes" nor "no" changes neither map.
C29_UnknownSideIsNoOp ==
    [][(last'.op = "delta" /\ last'.side \notin Sides)
          => (yes' = yes /\ no' = no)]_vars

\* the map of a side after the step
MapAfter(s) == IF s = "yes" THEN yes' ELSE no'

\* C30: a delta on the yes or the no side sets that side's level at its
\* price to the level's quantity (0 if there is none) plus the delta if the
\* sum is positive and leaves no level at that price if it is not; every
\* other level of that side and the whole opposite map stay as they were.
C30_DeltaSetsOrRemovesOneLevel ==
    [][(last'.op = "delta" /\ last'.side \in Sides)
          => LET s == last'.side
                 p == last'.price
                 sum == Get(MapOf(s), p) + last'.delta
             IN  /\ (sum > 0) => (p \in DOMAIN MapAfter(s)
                                  /\ MapAfter(s)[p] = sum)
                 /\ (sum <= 0) => p \notin DOMAIN MapAfter(s)
                 /\ (DOMAIN MapAfter(s)) \ {p} = (DOMAIN MapOf(s)) \ {p}
                 /\ \A q \in (DOMAIN MapOf(s)) \ {p} :
                        MapAfter(s)[q] = MapOf(s)[q]
                 /\ MapAfter(Opposite(s)) = MapOf(Opposite(s))]_vars

\* a delta has removed a level of the no side beside another one, with a
\* level on the yes side
C30_Witness ==
    /\ last.op = "delta"
    /\ last.side = "no"
    /\ last.delta < 0
    /\ last.price = 65
    /\ DOMAIN no = {30}
    /\ DOMAIN yes # {}

(***************************************************************************)
(* The target transition, the queue between the stream tasks and _poll,    *)
(* the strike across a roll, and the scheduler when a sink fails.          *)
(***************************************************************************)
\* C32: every book update evaluated in TRIGGERED with bid >= 45, arriving
\* 2 s or more after the trigger, at which no STOP_LOSS is emitted, emits a
\* TARGET and closes the cycle (the trigger is no longer open); this is to
\* hold also when ask <= 10 while the stop is not yet armed, and when the
\* opposite side of the book is empty so that there is no ask.
C32_TargetWheneverStopNotTaken ==
    [][(/\ DataStep
        /\ IsTriggered
        /\ best_bid(side)' # None
        /\ best_bid(side)' >= TargetThreshold
        /\ now' - trigger_time >= MinDwell
        /\ "STOP_LOSS" \notin Kinds(emitted'))
          => /\ Count("TARGET", emitted') = 1
             /\ ~in_trigger']_vars

\* the step is _poll applying a book message a stream task had queued
QueuedStep == last'.op = "queued"

\* C33: after a roll no snapshot or delta from the stream task of the
\* previous contract is applied to the new contract's book or evaluated by
\* the engine: every book message _poll applies was put by the task the
\* frame holds for the contract it is on.
C33_OnlyCurrentSessionFeedsBook ==
    [][QueuedStep => last'.from = future]_vars

\* C34: whenever the shared strike has a value, it is the strike of the
\* contract the frame is on: a lookup started for an earlier contract sets
\* it neither from its thread nor through the result it queued.
C34_StrikeIsOfActiveContract ==
    shared_strike # None => shared_strike = StrikeOf(ticker)

\* C35: while the engine is running, every expiry is eventually followed by
\* the roll to the next contract, and the 1-second tick stays armed, also
\* when a contract-end sink is unavailable or raises.
C35_ExpiryLeadsToRollAndTickStaysArmed ==
    /\ [](running => tick_armed)
    /\ (running /\ RollDue(now)) ~> ~RollDue(now)

(***************************************************************************)
(* The accounting of the cycle tracker over a contract.                    *)
(***************************************************************************)
\* 1 while the engine is TRIGGERED, else 0
OpenCycles == IF IsTriggered THEN 1 ELSE 0

\* what the counters and the SignalState account for as entries so far
Accounted == cycle_count + stop_loss_count + OpenCycles

\* C36: within a contract the number of ENTRY events emitted equals cycle
\* counter + stop counter + (1 if TRIGGERED else 0), the cycle counter the
\* number of TARGET events and the stop counter the number of STOP_LOSS
\* events.  Stated step by step: a roll starts the next contract with all
\* three at zero, and every other step moves each of the three by exactly
\* the number of events of its kind that the step emits.
C36_EntriesMatchCounters ==
    [][IF RollStep
       THEN Accounted' = 0 /\ cycle_count' = 0 /\ stop_loss_count' = 0
       ELSE /\ Accounted' - Accounted = Count("ENTRY", emitted')
            /\ cycle_count' - cycle_count = Count("TARGET", emitted')
            /\ stop_loss_count' - stop_loss_count
                  = Count("STOP_LOSS", emitted')]_vars

\* the ENTRY events of the contract so far: each ENTRY opened a trigger
\* (lines 971-975) that is still open, or was closed by a TARGET, counted at
\* line 1000, or by a STOP_LOSS, counted at line 988
EntriesInContract ==
    cycle_count + stop_loss_count + (IF in_trigger THEN 1 ELSE 0)

\* C37: a CONTRACT_END summary reports "no trigger" (in the log: "ask never
\* reached <=40", label NO TRIG) only for a contract in which no ENTRY was
\* emitted.
C37_NoTriggerMeansNoEntry ==
    [][/\ (RollStep /\ add_record(cycle_count, stop_loss_count,
                                  in_trigger).result = "no trigger")
          => EntriesInContract = 0
       /\ (RollStep /\ EvtLabel(cycle_count, OpenTrigStr) = "NO TRIG")
          => EntriesInContract = 0]_vars

\* C39: in every reachable state a trigger timestamp is recorded exactly
\* when the engine is TRIGGERED, and a STOPPED engine has no open trigger,
\* also after the user has changed max cycles or the stop arm delay during
\* a contract.
C39_SignalStateWellFormed ==
    /\ (trigger_time # None) <=> IsTriggered
    /\ ~(IsStopped /\ in_trigger)

(***************************************************************************)
(* The frame after stop(), checked under SpecQueue.                        *)
(***************************************************************************)
\* C38: after stop() the order book, the SignalState, the counters and the
\* contract identifier never change again, no event and no CONTRACT_END is
\* emitted and no roll occurs, even with messages still queued and timer
\* callbacks still pending.
C38_StoppedFrameIsFrozen ==
    [][~running =>
          /\ UNCHANGED <<yes, no, in_trigger, trigger_time, cycle_count,
                         stop_loss_count, stopped_out, ticker, expiry,
                         contract_start, future, q_roll>>
          /\ emitted' = <<>>
          /\ delivered' = NoDelivery
          /\ ~running']_vars

\* the frame was stopped at the expiry of its contract, with the 1-second
\* timer pending; its stream task has since put a book message on the queue
C38_Witness ==
    /\ ~running
    /\ RollDue(now)
    /\ tick_armed
    /\ poll_armed
    /\ last.op = "ws"
    /\ last.frame = "btc15"
    /\ sent = <<QPut("data", "book")>>
    /\ yes = EmptyMap
    /\ no = EmptyMap

(***************************************************************************)
(* The auto-save of the log, checked under SpecPersist.                    *)
(***************************************************************************)
\* the step handles the marker of a roll that has ended a contract
SaveStep == MarkerStep /\ pending_autosave # <<>>

C40_StartIndexWithinLog ==
    session_start_idx <= log_len

====
